---- MODULE Spec2Model ----
(***************************************************************************)
(* Ownership handles of cairopp (src/cairopp.h, namespace details) and the *)
(* facade constructors that instantiate them.                              *)
(*                                                                         *)
(* A behaviour fixes one handle policy (one template instantiation) and    *)
(* runs constructors, copies, moves, assignments and destructors over a    *)
(* small set of handle objects.  The wrapped library is the environment:   *)
(* it owns the reference count stored inside each resource, allocates and  *)
(* frees resources, and may hold references of its own.                    *)
(***************************************************************************)
EXTENDS Integers, Sequences, FiniteSets, TLC

\* ------------------------------------------------------------------ bounds
NumHandles == 2
NumRes == 2
MaxLibRefs == 1
\* The library answers with the statuses 0..MaxStatus.
MaxStatus == 41
\* The program draws on NumCtx contexts and nests MaxNest Subcontext scopes.
NumCtx == 2
MaxNest == 2
\* A path has at most MaxElems elements of at most MaxLen entries each.
MaxElems == 3
MaxLen == 4
\* Coordinates, radii and angles are drawn from 0..MaxCoord.
MaxCoord == 1
\* A gradient gets at most MaxStops color stops.
MaxStops == 2
\* The library answers a text with at most MaxGlyphs glyphs and as many
\* clusters, and a clip query with at most MaxRects rectangles.
MaxGlyphs == 2
MaxRects == 2

\* --------------------------------------------------------------- pointers
Null == 0
NilObject == 0 - 1
Handles == 1..NumHandles
Res == 1..NumRes
Ptr == Res \cup {Null, NilObject}
Values == {0, 1}

Policies == {"basic", "ref", "copy", "noncopy"}
FacadePolicies == {"ref", "copy", "noncopy"}

VARIABLES
  policy,    \* the handle template instantiated in this behaviour
  live,      \* handle objects whose lifetime has begun and not ended
  obj,       \* m_object of each handle
  count,     \* the library's reference count inside each resource, 0 = freed
  libRefs,   \* references the library itself holds on each resource
  data,      \* the mutable state of each resource (one option of FontOptions)
  moved,     \* ghost: the handle was the source of a move and not re-assigned
  rel,       \* ghost: release calls the handle made on the pointer it holds
  ub,        \* a freed resource was passed to the library
  last,      \* ghost: the last operation, its operands and its library calls
  prev,      \* ghost: the operation before it
  net,       \* ghost: shares the handles acquired on each resource, less released
  fx,        \* the last call of a forwarding facade method and what it did
  stops,     \* the color stops of one gradient pattern, inside the library
  ndebug,    \* the build defines NDEBUG: assert() expands to nothing
  gstack,    \* the graphics states each cairo context has saved, current last
  scopes,    \* the Subcontext objects alive, innermost last
  walk       \* a path's data array and an iterator over it

vars == <<policy, live, obj, count, libRefs, data, moved, rel, ub, last, prev,
          net, fx, stops, ndebug, gstack, scopes, walk>>

\* ---------------------------------------------------- the wrapped library
\* A machine state threaded through one handler: the heap and the calls made.
M0 == [count |-> count, data |-> data, calls |-> <<>>, ub |-> FALSE]

Call(fn, p) == [fn |-> fn, ptr |-> p]

FreeAddrs(cnt) == {r \in Res : cnt[r] = 0}

\* cairo_*_destroy: drops one reference, the resource is freed at zero.
\* The error object and NULL are ignored; a freed pointer is a double free.
LibDestroy(m, p) ==
  LET m1 == [m EXCEPT !.calls = Append(@, Call("Destroy", p))]
  IN IF p \notin Res THEN m1
     ELSE IF m.count[p] = 0 THEN [m1 EXCEPT !.ub = TRUE]
     ELSE [m1 EXCEPT !.count[p] = @ - 1]

\* cairo_*_reference: adds one reference.
LibReference(m, p) ==
  LET m1 == [m EXCEPT !.calls = Append(@, Call("Reference", p))]
  IN IF p \notin Res THEN m1
     ELSE IF m.count[p] = 0 THEN [m1 EXCEPT !.ub = TRUE]
     ELSE [m1 EXCEPT !.count[p] = @ + 1]

\* cairo_font_options_copy: a newly allocated resource with the original's
\* state; the library's static error object when the original is NULL or the
\* error object.  Result: the machine states after the call with the pointer
\* returned, one per address the allocator may pick.
LibCopy(m, p) ==
  LET m1 == [m EXCEPT !.calls = Append(@, Call("Copy", p))]
  IN IF p \notin Res THEN {[m |-> m1, ret |-> NilObject]}
     ELSE IF m.count[p] = 0 THEN {[m |-> [m1 EXCEPT !.ub = TRUE], ret |-> NilObject]}
     ELSE {[m |-> [m1 EXCEPT !.count[r] = 1, !.data[r] = m.data[p]], ret |-> r] :
             r \in FreeAddrs(m.count)}

\* ------------------------------------------------------------ BasicHandle
destroy_noguard(m, p) == LibDestroy(m, p)

\* void destroy(): the release function runs only on a non-null pointer.
destroy(m, p) == IF p # Null THEN LibDestroy(m, p) ELSE m

exchange_keep(f, s) == f

\* std::exchange(other.m_object, nullptr): the source is nulled.
exchange(f, s) == [f EXCEPT ![s] = Null]

SameHandle_never(d, s) == FALSE

\* &other == this
SameHandle(d, s) == d = s

\* ----------------------------------------------------------------- Handle
reference_skip(m, p) == m

\* void reference(): the reference function runs only on a non-null pointer.
reference(m, p) == IF p # Null THEN LibReference(m, p) ELSE m


\* Handle(T* object, IncreaseReferenceType): attach, then reference();
\* BasicHandle(T* object): attach only.
Construct(m, p, mode) == IF mode = "incr" THEN reference(m, p) ELSE m

\* BasicHandle(const BasicHandle&) = default: the pointer is copied.
BasicHandle_copy(m, p) == {[m |-> m, ret |-> p]}

Handle_copy_alias(m, p) == {[m |-> m, ret |-> p]}

\* Handle(const Handle& other): BasicHandle(other.get()), then reference().
Handle_copy(m, p) == {[m |-> reference(m, p), ret |-> p]}

CopyableHandle_copy_alias(m, p) == {[m |-> m, ret |-> p]}

\* CopyableHandle(const CopyableHandle& other): BasicHandle(Copy(other.get())).
CopyableHandle_copy(m, p) == LibCopy(m, p)

\* BasicHandle& operator=(const BasicHandle&) = default.
BasicHandle_assign(m, d, s) == {[m |-> m, ret |-> obj[s]]}

Handle_assign_leak(m, d, s) ==
  IF SameHandle(d, s) THEN {[m |-> m, ret |-> obj[d]]}
  ELSE {[m |-> reference(m, obj[s]), ret |-> obj[s]]}

\* Handle& operator=(const Handle& other)
Handle_assign(m, d, s) ==
  IF SameHandle(d, s) THEN {[m |-> m, ret |-> obj[d]]}
  ELSE LET m1 == destroy(m, obj[d])
       IN {[m |-> reference(m1, obj[s]), ret |-> obj[s]]}

CopyableHandle_assign_leak(m, d, s) ==
  IF SameHandle(d, s) THEN {[m |-> m, ret |-> obj[d]]}
  ELSE LibCopy(m, obj[s])

\* CopyableHandle& operator=(const CopyableHandle& other)
CopyableHandle_assign(m, d, s) ==
  IF SameHandle(d, s) THEN {[m |-> m, ret |-> obj[d]]}
  ELSE LibCopy(destroy(m, obj[d]), obj[s])

\* The copy constructor and the copy assignment each policy selects; the
\* non-copyable policy deletes both.
CopyCtorOf(pol, m, p) ==
  CASE pol = "basic" -> BasicHandle_copy(m, p)
    [] pol = "ref" -> Handle_copy(m, p)
    [] pol = "copy" -> CopyableHandle_copy(m, p)
    [] OTHER -> {}

CopyAssignOf(pol, m, d, s) ==
  CASE pol = "basic" -> BasicHandle_assign(m, d, s)
    [] pol = "ref" -> Handle_assign(m, d, s)
    [] pol = "copy" -> CopyableHandle_assign(m, d, s)
    [] OTHER -> {}

BasicHandle_move_dup(d, s) == [obj EXCEPT ![d] = obj[s]]

\* BasicHandle(BasicHandle&& other): m_object(std::exchange(other.m_object, nullptr))
BasicHandle_move(d, s) == [exchange(obj, s) EXCEPT ![d] = obj[s]]

BasicHandle_move_assign_keep(m, d, s) ==
  IF SameHandle(d, s) THEN [m |-> m, obj |-> obj]
  ELSE [m |-> m, obj |-> [exchange(obj, s) EXCEPT ![d] = obj[s]]]

\* BasicHandle& operator=(BasicHandle&& other)
BasicHandle_move_assign(m, d, s) ==
  IF SameHandle(d, s) THEN [m |-> m, obj |-> obj]
  ELSE [m |-> destroy(m, obj[d]), obj |-> [exchange(obj, s) EXCEPT ![d] = obj[s]]]

\* ---------------------------------------------------------------- facades
\* The constructors that wrap a resource the library has just created.
Factories ==
  {"BasicHandle", "FontOptions", "ToyFontFace", "ScaledFont", "Context",
   "Context_pop_group", "Context_copy_path", "Context_copy_path_flat",
   "MeshPattern_path", "Surface_create_similar", "Surface_create_similar_image",
   "Surface_create_for_rectangle", "SolidPattern_create", "SurfacePattern_create",
   "LinearGradientPattern_create", "RadialGradientPattern_create",
   "MeshPattern_create", "ImageSurface_create", "RecordingSurface_create",
   "PdfSurface_create"}

\* The handle policy of the member each factory initialises.
FactoryPolicy(f) ==
  CASE f = "BasicHandle" -> "basic"
    [] f = "FontOptions" -> "copy"
    [] f \in {"Context_copy_path", "Context_copy_path_flat", "MeshPattern_path"} -> "noncopy"
    [] OTHER -> "ref"

FactoryMode_incr(f) == IF f = "Context_pop_group" THEN "incr" ELSE "adopt"

\* Every factory passes the new pointer to the T* constructor.
FactoryMode(f) == "adopt"

\* The accessors that wrap a resource the library still holds.
Accessors ==
  {"Context_target", "Context_group_target", "Context_source",
   "Context_font_face", "Context_scaled_font", "Surface_device",
   "SurfacePattern_surface", "ScaledFont_font_face"}

AccessorMode_adopt(a) == IF a = "Surface_device" THEN "adopt" ELSE "incr"

\* Every accessor passes details::IncreaseReference.
AccessorMode(a) == "incr"

\* cairo_font_options_set_antialias(m_options, aa): the library writes the
\* option of a live resource and ignores NULL and the error object.
LibSetOption(m, p, v) ==
  LET m1 == [m EXCEPT !.calls = Append(@, Call("SetOption", p))]
  IN IF p \notin Res THEN m1
     ELSE IF m.count[p] = 0 THEN [m1 EXCEPT !.ub = TRUE]
     ELSE [m1 EXCEPT !.data[p] = v]

\* The facade methods that pass the handle's pointer on: status() of every
\* facade, and the accessors of Path.
Methods ==
  {"FontOptions_status", "FontFace_status", "ScaledFont_status", "Path_status",
   "Path_begin", "Path_end", "Pattern_status", "Device_status",
   "Surface_status", "Context_status"}

\* The handle policy of the member each method reads.
MethodPolicy(f) ==
  CASE f = "FontOptions_status" -> "copy"
    [] f \in {"Path_status", "Path_begin", "Path_end"} -> "noncopy"
    [] OTHER -> "ref"

\* Path reads the fields of the structure itself: m_path.get()->status.
MethodDerefs(f) == f \in {"Path_status", "Path_begin", "Path_end"}

\* cairo_*_status(p): the library reads the status of a live resource and
\* answers a NULL pointer, or the error object, with an error status.
LibStatus(m, p) ==
  LET m1 == [m EXCEPT !.calls = Append(@, Call("Status", p))]
  IN IF p \in Res /\ m.count[p] = 0 THEN [m1 EXCEPT !.ub = TRUE] ELSE m1

\* p->field in the wrapper: undefined when p is NULL or freed.
Deref(m, p) ==
  LET m1 == [m EXCEPT !.calls = Append(@, Call("Deref", p))]
  IN IF p = Null \/ (p \in Res /\ m.count[p] = 0)
     THEN [m1 EXCEPT !.ub = TRUE] ELSE m1

\* The body of a facade method on the pointer its handle holds: no check.
MethodBody(f, m, p) == IF MethodDerefs(f) THEN Deref(m, p) ELSE LibStatus(m, p)

\* ------------------------------------------------------ status reporting
\* Status::Success = CAIRO_STATUS_SUCCESS
Success == 0

LibStatuses == 0..MaxStatus

static_cast_Status_bool(v) == IF v = Success THEN Success ELSE 1

\* static_cast<Status>(v): Status is declared with the underlying type of
\* cairo_status_t, so the cast keeps the value, named by an enumerator or not.
static_cast_Status(v) == v

\* The operations that return a Status.
StatusOps ==
  {"FontOptions_status", "FontFace_status", "ScaledFont_status", "Path_status",
   "Pattern_status", "Device_status", "Surface_status", "Context_status",
   "Matrix_invert", "Device_acquire", "Surface_write_to_png",
   "Surface_write_to_png_path", "ScaledFont_text_to_glyphs"}

\* The library function whose status each of them returns; Path::status
\* reads the status field the library left in the path structure.
LibFn(f) ==
  CASE f = "FontOptions_status" -> "cairo_font_options_status"
    [] f = "FontFace_status" -> "cairo_font_face_status"
    [] f = "ScaledFont_status" -> "cairo_scaled_font_status"
    [] f = "Path_status" -> "cairo_path_t::status"
    [] f = "Pattern_status" -> "cairo_pattern_status"
    [] f = "Device_status" -> "cairo_device_status"
    [] f = "Surface_status" -> "cairo_surface_status"
    [] f = "Context_status" -> "cairo_status"
    [] f = "Matrix_invert" -> "cairo_matrix_invert"
    [] f = "Device_acquire" -> "cairo_device_acquire"
    [] f \in {"Surface_write_to_png", "Surface_write_to_png_path"}
         -> "cairo_surface_write_to_png"
    [] f = "ScaledFont_text_to_glyphs" -> "cairo_scaled_font_text_to_glyphs"

\* The body of a status-reporting operation when the library answers s: the
\* library calls it makes, in order, and the Status it returns.
StatusCall(f, s) ==
  LET result == static_cast_Status(s)
      first == IF f = "Path_status" THEN <<>> ELSE <<LibFn(f)>>
      frees == IF f = "ScaledFont_text_to_glyphs" /\ result = Success
               THEN <<"cairo_glyph_free", "cairo_text_cluster_free">>
               ELSE <<>>
  IN [calls |-> first \o frees, ret |-> result]

\* ------------------------------------------------- Context path creation
\* The path operations of Context that have a scalar overload and an overload
\* taking Vec2F or RectF.
PathOps ==
  {"move_to", "line_to", "curve_to", "arc", "arc_negative", "rel_move_to",
   "rel_line_to", "rel_curve_to", "rectangle"}

Coords == 0..MaxCoord

\* The number of scalar arguments of each.
Arity(op) ==
  CASE op \in {"move_to", "line_to", "rel_move_to", "rel_line_to"} -> 2
    [] op \in {"curve_to", "rel_curve_to"} -> 6
    [] op \in {"arc", "arc_negative"} -> 5
    [] op = "rectangle" -> 4

Vec2F(x, y) == [x |-> x, y |-> y]
RectF(x, y, w, h) == [x |-> x, y |-> y, w |-> w, h |-> h]

\* The scalar overloads: the arguments go to the library function in order.
ScalarOverload(op, a) ==
  LET fn == CASE op = "move_to" -> "cairo_move_to"
              [] op = "line_to" -> "cairo_line_to"
              [] op = "curve_to" -> "cairo_curve_to"
              [] op = "arc" -> "cairo_arc"
              [] op = "arc_negative" -> "cairo_arc_negative"
              [] op = "rel_move_to" -> "cairo_rel_move_to"
              [] op = "rel_line_to" -> "cairo_rel_line_to"
              [] op = "rel_curve_to" -> "cairo_rel_curve_to"
              [] op = "rectangle" -> "cairo_rectangle"
  IN <<[fn |-> fn, args |-> a]>>

\* The Vec2F and RectF overloads, each with the library function it names
\* and the fields it passes.
StructOverload(op, s) ==
  CASE op = "move_to" ->
         <<[fn |-> "cairo_move_to", args |-> <<s[1].x, s[1].y>>]>>
    [] op = "line_to" ->
         <<[fn |-> "cairo_line_to", args |-> <<s[1].x, s[1].y>>]>>
    [] op = "curve_to" ->
         <<[fn |-> "cairo_curve_to",
            args |-> <<s[1].x, s[1].y, s[2].x, s[2].y, s[3].x, s[3].y>>]>>
    [] op = "arc" ->
         <<[fn |-> "cairo_arc", args |-> <<s[1].x, s[1].y, s[2], s[3], s[4]>>]>>
    [] op = "arc_negative" ->
         <<[fn |-> "cairo_arc_negative",
            args |-> <<s[1].x, s[1].y, s[2], s[3], s[4]>>]>>
    [] op = "rel_move_to" ->
         <<[fn |-> "cairo_rel_move_to", args |-> <<s[1].x, s[1].y>>]>>
    [] op = "rel_line_to" ->
         <<[fn |-> "cairo_rel_line_to", args |-> <<s[1].x, s[1].y>>]>>
    [] op = "rel_curve_to" ->
         <<[fn |-> "cairo_curve_to",
            args |-> <<s[1].x, s[1].y, s[2].x, s[2].y, s[3].x, s[3].y>>]>>
    [] op = "rectangle" ->
         <<[fn |-> "cairo_rectangle", args |-> <<s[1].x, s[1].y, s[1].w, s[1].h>>]>>

\* The same values as the caller of the Vec2F or RectF overload passes them.
Pack(op, a) ==
  CASE Arity(op) = 2 -> <<Vec2F(a[1], a[2])>>
    [] Arity(op) = 6 -> <<Vec2F(a[1], a[2]), Vec2F(a[3], a[4]), Vec2F(a[5], a[6])>>
    [] Arity(op) = 5 -> <<Vec2F(a[1], a[2]), a[3], a[4], a[5]>>
    [] Arity(op) = 4 -> <<RectF(a[1], a[2], a[3], a[4])>>

\* -------------------------------------------------------- GradientPattern
\* Status::InvalidIndex = CAIRO_STATUS_INVALID_INDEX
InvalidIndex == 21

\* struct Color with its default member initialisers.
Color(r, g, b, a) == [r |-> r, g |-> g, b |-> b, a |-> a]
DefaultColor == Color(0, 0, 0, 1)

Colors == {Color(v, 0, 0, 1) : v \in Coords}

\* The indices a caller may pass: in range, negative, and past the end.
Indices == (0 - 1)..MaxStops

\* The library keeps offsets and color components within [0, 1].
Clamp(v) == IF v < 0 THEN 0 ELSE IF v > 1 THEN 1 ELSE v

\* cairo_pattern_add_color_stop_rgba: the stop goes after the stops whose
\* offset is not larger.
LibAddColorStop(st, offset, col) ==
  LET new == [offset |-> Clamp(offset),
              color |-> Color(Clamp(col.r), Clamp(col.g), Clamp(col.b), Clamp(col.a))]
      k == Cardinality({i \in 1..Len(st) : st[i].offset <= new.offset})
  IN SubSeq(st, 1, k) \o <<new>> \o SubSeq(st, k + 1, Len(st))

\* cairo_pattern_get_color_stop_rgba: the stop at a valid index; for any other
\* index CAIRO_STATUS_INVALID_INDEX, and the output arguments are not written.
LibGetColorStop(st, index) ==
  IF 0 <= index /\ index < Len(st)
  THEN [status |-> Success, written |-> TRUE, stop |-> st[index + 1]]
  ELSE [status |-> InvalidIndex, written |-> FALSE,
        stop |-> [offset |-> 0, color |-> DefaultColor]]

\* int color_stop_count(): the number of stops of the gradient.
color_stop_count(st) == Len(st)

color_stop_unchecked(st, index, nd) ==
  LET g == LibGetColorStop(st, index)
  IN [calls |-> <<"cairo_pattern_get_color_stop_rgba">>, lib |-> g.status,
      ret |-> [outcome |-> "return",
               offset |-> IF g.written THEN g.stop.offset ELSE 0,
               color |-> IF g.written THEN g.stop.color ELSE DefaultColor]]

\* std::pair<double, Color> color_stop(int index): offset = 0.0 and a default
\* Color are handed to the library; assert(result == CAIRO_STATUS_SUCCESS)
\* aborts unless the build defines NDEBUG; the pair is returned.
color_stop(st, index, nd) ==
  LET g == LibGetColorStop(st, index)
      offset == IF g.written THEN g.stop.offset ELSE 0
      col == IF g.written THEN g.stop.color ELSE DefaultColor
      failed == ~nd /\ g.status # Success
  IN [calls |-> <<"cairo_pattern_get_color_stop_rgba">>, lib |-> g.status,
      ret |-> IF failed
              THEN [outcome |-> "abort", offset |-> 0, color |-> DefaultColor]
              ELSE [outcome |-> "return", offset |-> offset, color |-> col]]

\* ----------------------------------------------- ScaledFont::text_to_glyphs
\* TextClusterFlags
None == 0
Backward == 1

\* The arrays of at most n entries drawn from S.  A null array pointer with
\* its count of 0 is the empty array.
Arrays(S, n) == UNION {[1..k -> S] : k \in 0..n}

\* What cairo_scaled_font_text_to_glyphs leaves in its out parameters: on
\* success two arrays it allocated with their counts and the flags; on any
\* other status null arrays, counts of 0 and flags of 0.
LibTextToGlyphs ==
  {[status |-> Success, glyphs |-> g, num_glyphs |-> Len(g),
    clusters |-> c, num_clusters |-> Len(c), cluster_flags |-> f] :
      g \in Arrays(Coords, MaxGlyphs), c \in Arrays(Coords, MaxGlyphs),
      f \in {None, Backward}}
    \cup {[status |-> s, glyphs |-> <<>>, num_glyphs |-> 0,
           clusters |-> <<>>, num_clusters |-> 0, cluster_flags |-> 0] :
             s \in LibStatuses \ {Success}}

\* std::vector::assign(first, first + n)
assign(first, n) == [i \in 1..n |-> first[i]]

\* struct TextGlyphs with its default member initialisers.
TextGlyphs == [result |-> Success, glyphs |-> <<>>, clusters |-> <<>>,
               flags |-> None]

LibCall(fn, args) == [fn |-> fn, args |-> args]

text_to_glyphs_unchecked(out) ==
  [calls |-> <<LibCall("cairo_scaled_font_text_to_glyphs", <<>>),
               LibCall("cairo_glyph_free", <<out.glyphs>>),
               LibCall("cairo_text_cluster_free", <<out.clusters>>)>>,
   ret |-> [result |-> static_cast_Status(out.status),
            glyphs |-> assign(out.glyphs, out.num_glyphs),
            clusters |-> assign(out.clusters, out.num_clusters),
            flags |-> out.cluster_flags]]

\* TextGlyphs text_to_glyphs(Vec2F position, std::string_view text): the
\* arrays are copied and freed only if the library answered Success.
text_to_glyphs(out) ==
  LET ret == [TextGlyphs EXCEPT !.result = static_cast_Status(out.status)]
      asked == <<LibCall("cairo_scaled_font_text_to_glyphs", <<>>)>>
  IN IF ret.result = Success
     THEN [calls |-> asked
                       \o <<LibCall("cairo_glyph_free", <<out.glyphs>>),
                            LibCall("cairo_text_cluster_free", <<out.clusters>>)>>,
           ret |-> [ret EXCEPT
                      !.glyphs = assign(out.glyphs, out.num_glyphs),
                      !.clusters = assign(out.clusters, out.num_clusters),
                      !.flags = out.cluster_flags]]
     ELSE [calls |-> asked, ret |-> ret]

\* --------------------------------------------- Context::clip_rectangle_list
\* The rectangles of the library, with four different fields each.
LibRects ==
  {[x |-> a, y |-> a + 1, width |-> a + 2, height |-> a + 3] : a \in Coords}

\* What cairo_copy_clip_rectangle_list returns: a list of rectangles with
\* status Success, or a list without rectangles that carries another status.
LibClipLists ==
  {[status |-> Success, rectangles |-> r, num_rectangles |-> Len(r)] :
     r \in Arrays(LibRects, MaxRects)}
    \cup {[status |-> s, rectangles |-> <<>>, num_rectangles |-> 0] :
            s \in LibStatuses \ {Success}}

clip_rectangle_list_leak(l) ==
  IF l.status # Success
  THEN [calls |-> <<LibCall("cairo_copy_clip_rectangle_list", <<>>)>>,
        ret |-> <<>>]
  ELSE [calls |-> <<LibCall("cairo_copy_clip_rectangle_list", <<>>),
                    LibCall("cairo_rectangle_list_destroy", <<l>>)>>,
        ret |-> [i \in 1..l.num_rectangles |->
                   RectF(l.rectangles[i].x, l.rectangles[i].y,
                         l.rectangles[i].width, l.rectangles[i].height)]]

\* std::vector<RectF> clip_rectangle_list(): the unique_ptr destroys the list
\* when the function returns, on either path.
clip_rectangle_list(l) ==
  [calls |-> <<LibCall("cairo_copy_clip_rectangle_list", <<>>),
               LibCall("cairo_rectangle_list_destroy", <<l>>)>>,
   ret |-> IF l.status # Success
           THEN <<>>
           ELSE [i \in 1..l.num_rectangles |->
                   RectF(l.rectangles[i].x, l.rectangles[i].y,
                         l.rectangles[i].width, l.rectangles[i].height)]]

\* ------------------------------------------------------ rectangular extents
\* The corners the library writes: whole numbers of either sign, which a
\* double holds and subtracts exactly.
Corners == (0 - MaxCoord)..MaxCoord

ExtentsOps == {"path_extents", "stroke_extents", "fill_extents", "clip_extents"}

path_extents_corners(c) ==
  [calls |-> <<LibCall("cairo_path_extents", <<>>)>>,
   ret |-> RectF(c[1], c[2], c[3], c[4])]

\* c = <<x1, y1, x2, y2>> as the library wrote them.
path_extents(c) ==
  [calls |-> <<LibCall("cairo_path_extents", <<>>)>>,
   ret |-> RectF(c[1], c[2], c[3] - c[1], c[4] - c[2])]

stroke_extents(c) ==
  [calls |-> <<LibCall("cairo_stroke_extents", <<>>)>>,
   ret |-> RectF(c[1], c[2], c[3] - c[1], c[4] - c[2])]

fill_extents(c) ==
  [calls |-> <<LibCall("cairo_fill_extents", <<>>)>>,
   ret |-> RectF(c[1], c[2], c[3] - c[1], c[4] - c[2])]

clip_extents(c) ==
  [calls |-> <<LibCall("cairo_clip_extents", <<>>)>>,
   ret |-> RectF(c[1], c[2], c[3] - c[1], c[4] - c[2])]

Extents(op, c) ==
  CASE op = "path_extents" -> path_extents(c)
    [] op = "stroke_extents" -> stroke_extents(c)
    [] op = "fill_extents" -> fill_extents(c)
    [] op = "clip_extents" -> clip_extents(c)

\* -------------------------------------------------------------- Subcontext
Ctxs == 1..NumCtx

\* The number of graphics states a context has saved.
Depth(gs, c) == Len(gs[c]) - 1

\* The current graphics state of a context (its source color).
Current(gs, c) == gs[c][Len(gs[c])]

\* cairo_save: a copy of the current graphics state is pushed.
LibSave(gs, c) == [gs EXCEPT ![c] = Append(@, @[Len(@)])]

\* cairo_restore: the state saved last becomes current again; with nothing
\* saved the call is an error and the state stays.
LibRestore(gs, c) ==
  IF Len(gs[c]) > 1 THEN [gs EXCEPT ![c] = SubSeq(@, 1, Len(@) - 1)] ELSE gs

\* cairo_set_source_rgb: the current graphics state changes.
LibSetSource(gs, c, v) == [gs EXCEPT ![c][Len(gs[c])] = v]

LibCtxCall(fn, c) == [fn |-> fn, ctx |-> c]

\* Subcontext(Context& ctx): m_context(&ctx), then m_context->save().
Subcontext_ctor(gs, c) ==
  [gs |-> LibSave(gs, c), m_context |-> c,
   calls |-> <<LibCtxCall("cairo_save", c)>>]

Subcontext_dtor_twice(gs, c) ==
  [gs |-> LibRestore(LibRestore(gs, c), c),
   calls |-> <<LibCtxCall("cairo_restore", c), LibCtxCall("cairo_restore", c)>>]

\* ~Subcontext(): m_context->restore().
Subcontext_dtor(gs, c) ==
  [gs |-> LibRestore(gs, c), calls |-> <<LibCtxCall("cairo_restore", c)>>]

\* ------------------------------------------------------------------- Path
NoWalk == [data |-> <<>>, pos |-> 0, seen |-> <<>>]

\* The header lengths of the elements of a path, one sequence per path.
PathShapes == UNION {[1..n -> 1..MaxLen] : n \in 0..MaxElems}

\* The array of PathData the library builds: each element is a header entry
\* that carries the element's length, followed by length - 1 point entries.
RECURSIVE PathArray(_, _)
PathArray(shape, k) ==
  IF k > Len(shape) THEN <<>>
  ELSE <<[kind |-> "header", length |-> shape[k], elem |-> k]>>
         \o [j \in 1..(shape[k] - 1) |-> [kind |-> "point", elem |-> k, at |-> j]]
         \o PathArray(shape, k + 1)

\* An iterator is the offset of its m_data in the array.
\* Path::begin(): m_path.get()->data.
Path_begin(d) == 0

\* Path::end(): m_path.get()->data + m_path.get()->num_data.
Path_end(d) == Len(d)

\* m_data[0].header.length: reading the header of an entry that is no header,
\* or past the array, yields any value.
HeaderLength(d, p) ==
  IF p >= 0 /\ p < Len(d) /\ d[p + 1].kind = "header"
  THEN {d[p + 1].length} ELSE 1..MaxLen

pre_increment_by_one(d, p) == {p + 1}

\* PathIterator& operator++(): m_data += m_data[0].header.length.  The set
\* of positions the iterator may have afterwards.
pre_increment(d, p) == {p + n : n \in HeaderLength(d, p)}

\* PathIterator operator++(int): copy = *this; ++copy; return copy.  it is
\* the position of *this afterwards, ret the position of the iterator returned.
post_increment(d, p) == {[it |-> p, ret |-> q] : q \in pre_increment(d, p)}

\* int PathElement::length(): m_data[0].header.length.
length(d, p) == HeaderLength(d, p)

\* Vec2F PathElement::point(int i): assert(i < length()), then m_data[i] is
\* read.  read is the offset of the entry read.
point(d, p, i, nd) ==
  {[outcome |-> IF ~nd /\ ~(i < n) THEN "abort" ELSE "return", read |-> p + i] :
     n \in length(d, p)}

\* -------------------------------------------------------------- the state
NoHandle == 0

\* No forwarding method has been called yet.
NoCall ==
  [op |-> "none", arg |-> [f |-> "none", form |-> "none", v |-> <<>>],
   lib |-> 0, calls |-> <<>>, ret |-> 0]

\* The program is about to call method f, in the given overload, on values v.
Pending(f, form, v) ==
  [op |-> "pending", arg |-> [f |-> f, form |-> form, v |-> v],
   lib |-> 0, calls |-> <<>>, ret |-> 0]

\* The model names a new handle object by the lowest unused index.
NewSlot(h) == h \notin live /\ \A g \in Handles : g < h => g \in live

\* Cap on the ghost counter rel.
MaxRel == 2

\* Cap on a reference count: one share per handle and the library's own.  A
\* program that leaks shares (set() over a held pointer) would exceed it.
MaxCount == NumHandles + MaxLibRefs

Old(h) == IF h \in Handles THEN obj[h] ELSE Null

WasMoved(h) == IF h \in Handles THEN moved[h] ELSE FALSE

\* What the next operation remembers of this one: the constructions, with the
\* count the attached resource had before an accessor attached to it.
Remember ==
  IF last.op \in {"Default", "Factory", "Accessor", "CopyCtor"}
  THEN [op |-> last.op, dst |-> last.dst, src |-> last.src,
        cnt |-> IF last.op = "Accessor" /\ obj[last.dst] \in Res
                THEN last.before[obj[last.dst]] ELSE 0]
  ELSE [op |-> "Other", dst |-> NoHandle, src |-> NoHandle, cnt |-> 0]

\* One operation: the new handle state, the heap the library calls left, and
\* the record of the operation.  given = the pointer dst stopped holding,
\* total = the release calls dst made on it.
\* The shares one operation adds to resource r: a pointer the library handed
\* out (a new resource, a clone) and that is wrapped without a reference call
\* is an adopted share, each reference call is a share, each release call
\* gives one back.
Acquired(op, calls, p, r) ==
  LET on(fn) == Len(SelectSeq(calls, LAMBDA c : c.fn = fn /\ c.ptr = r))
      cloned == \E i \in 1..Len(calls) : calls[i].fn = "Copy"
      adopted == /\ \/ op \in {"Factory", "Accessor", "Set"}
                    \/ op \in {"CopyCtor", "CopyAssign"} /\ cloned
                 /\ p = r /\ on("Reference") = 0
  IN (IF adopted THEN 1 ELSE 0) + on("Reference") - on("Destroy")

Step(op, d, s, m, live2, obj2, moved2, rel2, total) ==
  /\ \A r \in Res : m.count[r] <= MaxCount
  /\ net' = [r \in Res |-> net[r] + Acquired(op, m.calls,
                                   IF d \in Handles THEN obj2[d] ELSE Null, r)]
  /\ live' = live2
  /\ obj' = obj2
  /\ moved' = moved2
  /\ rel' = rel2
  /\ count' = m.count
  /\ data' = m.data
  /\ ub' = m.ub
  /\ prev' = Remember
  /\ last' = [op |-> op, dst |-> d, src |-> s, calls |-> m.calls,
              oldDst |-> Old(d), oldSrc |-> Old(s), before |-> count,
              odata |-> data, moved |-> WasMoved(d), rel |-> total]
  /\ UNCHANGED <<policy, fx, stops, ndebug, gstack, scopes, walk>>

TypeOK ==
  /\ policy \in Policies
  /\ live \subseteq Handles
  /\ obj \in [Handles -> Ptr]
  /\ count \in [Res -> Nat]
  /\ libRefs \in [Res -> 0..MaxLibRefs]
  /\ data \in [Res -> Values]
  /\ moved \in [Handles -> BOOLEAN]
  /\ rel \in [Handles -> Nat]
  /\ ub \in BOOLEAN
  /\ net \in [Res -> Int]
  /\ ndebug \in BOOLEAN

HandlesInit ==
  /\ live = {}
  /\ obj = [h \in Handles |-> Null]
  /\ count = [r \in Res |-> 0]
  /\ libRefs = [r \in Res |-> 0]
  /\ data = [r \in Res |-> 0]
  /\ moved = [h \in Handles |-> FALSE]
  /\ rel = [h \in Handles |-> 0]
  /\ ub = FALSE
  /\ last = [op |-> "Init", dst |-> NoHandle, src |-> NoHandle, calls |-> <<>>,
             oldDst |-> Null, oldSrc |-> Null, before |-> [r \in Res |-> 0],
             odata |-> [r \in Res |-> 0], moved |-> FALSE, rel |-> 0]
  /\ prev = [op |-> "Other", dst |-> NoHandle, src |-> NoHandle, cnt |-> 0]
  /\ net = [r \in Res |-> 0]

\* No context has saved anything, no scope is open, no path is walked.
Idle == gstack = [c \in Ctxs |-> <<0>>] /\ scopes = <<>> /\ walk = NoWalk

InitState == HandlesInit /\ fx = NoCall /\ stops = <<>> /\ Idle

\* The policies the facade types instantiate.
Init == policy \in FacadePolicies /\ InitState /\ ndebug = FALSE

\* Every policy, the base template used on its own included.
InitAPI == policy \in Policies /\ InitState /\ ndebug = FALSE

\* ------------------------------------------------------------- operations
\* BasicHandle() = default: m_object = nullptr.
DefaultConstruct(h) ==
  /\ ~ub /\ NewSlot(h)
  /\ Step("Default", h, h, M0, live \cup {h}, [obj EXCEPT ![h] = Null],
          [moved EXCEPT ![h] = FALSE], [rel EXCEPT ![h] = 0], 0)
  /\ UNCHANGED libRefs

\* A factory: the library creates a resource with count 1 and the facade
\* wraps the pointer.
Factory(h, f) ==
  /\ ~ub /\ NewSlot(h) /\ FactoryPolicy(f) = policy
  /\ \E r \in FreeAddrs(count) :
       LET m1 == [M0 EXCEPT !.count[r] = 1, !.data[r] = 0]
           m2 == Construct(m1, r, FactoryMode(f))
       IN Step("Factory", h, h, m2, live \cup {h}, [obj EXCEPT ![h] = r],
               [moved EXCEPT ![h] = FALSE], [rel EXCEPT ![h] = 0], 0)
  /\ UNCHANGED libRefs

\* An accessor: the library returns a resource it holds, or NULL.
Accessor(h, a) ==
  /\ ~ub /\ NewSlot(h) /\ policy = "ref"
  /\ \E p \in {Null} \cup {r \in Res : libRefs[r] > 0 /\ count[r] > 0} :
       LET m1 == Construct(M0, p, AccessorMode(a))
       IN Step("Accessor", h, h, m1, live \cup {h}, [obj EXCEPT ![h] = p],
               [moved EXCEPT ![h] = FALSE], [rel EXCEPT ![h] = 0], 0)
  /\ UNCHANGED libRefs

CopyConstruct(d, s) ==
  /\ ~ub /\ s \in live /\ NewSlot(d)
  /\ \E o \in CopyCtorOf(policy, M0, obj[s]) :
       Step("CopyCtor", d, s, o.m, live \cup {d}, [obj EXCEPT ![d] = o.ret],
            [moved EXCEPT ![d] = FALSE], [rel EXCEPT ![d] = 0], 0)
  /\ UNCHANGED libRefs

CopyAssign(d, s) ==
  /\ ~ub /\ s \in live /\ d \in live
  /\ \E o \in CopyAssignOf(policy, M0, d, s) :
       Step("CopyAssign", d, s, o.m, live, [obj EXCEPT ![d] = o.ret],
            IF d = s THEN moved ELSE [moved EXCEPT ![d] = FALSE],
            IF d = s THEN rel ELSE [rel EXCEPT ![d] = 0],
            rel[d] + Len(SelectSeq(o.m.calls, LAMBDA c : c.fn = "Destroy")))
  /\ UNCHANGED libRefs

MoveConstruct(d, s) ==
  /\ ~ub /\ s \in live /\ NewSlot(d)
  /\ Step("MoveCtor", d, s, M0, live \cup {d}, BasicHandle_move(d, s),
          [moved EXCEPT ![d] = FALSE, ![s] = TRUE],
          [rel EXCEPT ![d] = rel[s], ![s] = 0], 0)
  /\ UNCHANGED libRefs

MoveAssign(d, s) ==
  /\ ~ub /\ s \in live /\ d \in live
  /\ LET o == BasicHandle_move_assign(M0, d, s)
     IN Step("MoveAssign", d, s, o.m, live, o.obj,
             IF d = s THEN moved ELSE [moved EXCEPT ![d] = FALSE, ![s] = TRUE],
             IF d = s THEN rel ELSE [rel EXCEPT ![d] = rel[s], ![s] = 0],
             rel[d] + Len(o.m.calls))
  /\ UNCHANGED libRefs

\* ~BasicHandle(): destroy(); the object is gone afterwards.
Destruct(h) ==
  /\ ~ub /\ h \in live
  /\ LET m1 == destroy(M0, obj[h])
     IN Step("Dtor", h, h, m1, live \ {h}, [obj EXCEPT ![h] = Null],
             [moved EXCEPT ![h] = FALSE], [rel EXCEPT ![h] = 0],
             rel[h] + Len(m1.calls))
  /\ UNCHANGED libRefs

\* FontOptions::set_antialias
Mutate(h, v) ==
  /\ ~ub /\ h \in live /\ policy = "copy"
  /\ Step("Mutate", h, h, LibSetOption(M0, obj[h], v), live, obj, moved, rel, 0)
  /\ UNCHANGED libRefs

\* A facade method called on a live facade object.
Method(h, f) ==
  /\ ~ub /\ h \in live /\ MethodPolicy(f) = policy
  /\ Step("Method", h, h, MethodBody(f, M0, obj[h]), live, obj, moved, rel, 0)
  /\ UNCHANGED libRefs

\* The library takes a reference of its own on a resource a facade passes in
\* (cairo_set_source, cairo_set_font_face, cairo_create on its target, ...).
LibAcquire(h) ==
  /\ ~ub /\ h \in live /\ policy = "ref"
  /\ obj[h] \in Res /\ count[obj[h]] > 0 /\ libRefs[obj[h]] < MaxLibRefs
  /\ libRefs' = [libRefs EXCEPT ![obj[h]] = @ + 1]
  /\ Step("LibAcquire", NoHandle, NoHandle, [M0 EXCEPT !.count[obj[h]] = @ + 1],
          live, obj, moved, rel, 0)

\* The library drops a reference of its own (the source is replaced, the
\* context goes away, ...).
LibRelease(r) ==
  /\ ~ub /\ policy = "ref" /\ libRefs[r] > 0 /\ count[r] > 0
  /\ libRefs' = [libRefs EXCEPT ![r] = @ - 1]
  /\ Step("LibRelease", NoHandle, NoHandle, [M0 EXCEPT !.count[r] = @ - 1],
          live, obj, moved, rel, 0)

\* void destroy() called from outside the class.
ExplicitDestroy(h) ==
  /\ ~ub /\ h \in live /\ rel[h] < MaxRel
  /\ LET m1 == destroy(M0, obj[h])
     IN Step("Destroy", h, h, m1, live, obj, moved,
             [rel EXCEPT ![h] = @ + Len(m1.calls)], rel[h] + Len(m1.calls))
  /\ UNCHANGED libRefs

\* void set(T* object) called from outside the class, with NULL or with a
\* resource the library has just created.
Set(h, fresh) ==
  /\ ~ub /\ h \in live
  /\ \E p \in (IF fresh THEN FreeAddrs(count) ELSE {Null}) :
       LET m1 == IF p = Null THEN M0 ELSE [M0 EXCEPT !.count[p] = 1, !.data[p] = 0]
       IN Step("Set", h, h, m1, live, [obj EXCEPT ![h] = p],
               [moved EXCEPT ![h] = FALSE], [rel EXCEPT ![h] = 0], rel[h])
  /\ UNCHANGED libRefs

\* The forwarding methods leave every handle alone.
HandlesUnchanged ==
  UNCHANGED <<policy, live, obj, count, libRefs, data, moved, rel, ub, last,
              prev, net>>

\* A status-reporting operation runs and the library answers s.
StatusOp(f, s) ==
  /\ fx = Pending(f, "status", <<s>>)
  /\ LET o == StatusCall(f, s)
     IN fx' = [op |-> f, arg |-> fx.arg, lib |-> s, calls |-> o.calls,
               ret |-> o.ret]
  /\ UNCHANGED <<stops, ndebug, gstack, scopes, walk>>
  /\ HandlesUnchanged

\* A path operation is called through one of its two overloads.
PathOp(op, form, a) ==
  /\ fx = Pending(op, form, a)
  /\ fx' = [op |-> op, arg |-> fx.arg, lib |-> 0,
            calls |-> IF form = "scalar" THEN ScalarOverload(op, a)
                      ELSE StructOverload(op, Pack(op, a)),
            ret |-> 0]
  /\ UNCHANGED <<stops, ndebug, gstack, scopes, walk>>
  /\ HandlesUnchanged

\* GradientPattern::add_color_stop_color on the pattern that is about to be
\* read.
AddColorStop(offset, col) ==
  /\ fx.op = "pending" /\ fx.arg.f = "color_stop"
  /\ Len(stops) < MaxStops
  /\ stops' = LibAddColorStop(stops, offset, col)
  /\ UNCHANGED <<fx, ndebug, gstack, scopes, walk>>
  /\ HandlesUnchanged

\* GradientPattern::color_stop
ColorStop(index) ==
  /\ fx = Pending("color_stop", "index", <<index>>)
  /\ LET o == color_stop(stops, index, ndebug)
     IN fx' = [op |-> "color_stop", arg |-> fx.arg, lib |-> o.lib,
               calls |-> o.calls, ret |-> o.ret]
  /\ UNCHANGED <<stops, ndebug, gstack, scopes, walk>>
  /\ HandlesUnchanged

\* ScaledFont::text_to_glyphs, with what the library answers.
TextToGlyphs(out) ==
  /\ fx = Pending("text_to_glyphs", "text", <<out>>)
  /\ LET o == text_to_glyphs(out)
     IN fx' = [op |-> "text_to_glyphs", arg |-> fx.arg, lib |-> out.status,
               calls |-> o.calls, ret |-> o.ret]
  /\ UNCHANGED <<stops, ndebug, gstack, scopes, walk>>
  /\ HandlesUnchanged

\* Context::clip_rectangle_list, with the list the library returns.
ClipRectangleList(l) ==
  /\ fx = Pending("clip_rectangle_list", "list", <<l>>)
  /\ LET o == clip_rectangle_list(l)
     IN fx' = [op |-> "clip_rectangle_list", arg |-> fx.arg, lib |-> l.status,
               calls |-> o.calls, ret |-> o.ret]
  /\ UNCHANGED <<stops, ndebug, gstack, scopes, walk>>
  /\ HandlesUnchanged

\* One of the four extents queries, with the corners the library writes.
ExtentsOp(op, c) ==
  /\ fx = Pending(op, "corners", c)
  /\ LET o == Extents(op, c)
     IN fx' = [op |-> op, arg |-> fx.arg, lib |-> 0, calls |-> o.calls,
               ret |-> o.ret]
  /\ UNCHANGED <<stops, ndebug, gstack, scopes, walk>>
  /\ HandlesUnchanged

\* The forwarding methods and the handles leave contexts and paths alone.
CallsUnchanged == UNCHANGED <<stops, ndebug, walk>> /\ HandlesUnchanged

\* A block declares a Subcontext on context c.  level and state are ghosts:
\* the depth and the graphics state of c when the scope began.
EnterScope(c) ==
  /\ Len(scopes) < MaxNest
  /\ LET o == Subcontext_ctor(gstack, c)
     IN /\ gstack' = o.gs
        /\ scopes' = Append(scopes, [m_context |-> o.m_context,
                                     level |-> Depth(gstack, c),
                                     state |-> Current(gstack, c)])
        /\ fx' = [op |-> "Subcontext", arg |-> [f |-> "Subcontext", form |-> "ctx",
                  v |-> <<c, Depth(gstack, c), Current(gstack, c)>>],
                  lib |-> 0, calls |-> o.calls, ret |-> 0]
  /\ CallsUnchanged

\* The innermost block ends: objects with automatic storage are destroyed in
\* the reverse order of their construction.
LeaveScope ==
  /\ scopes # <<>>
  /\ LET sub == scopes[Len(scopes)]
         o == Subcontext_dtor(gstack, sub.m_context)
     IN /\ gstack' = o.gs
        /\ scopes' = SubSeq(scopes, 1, Len(scopes) - 1)
        /\ fx' = [op |-> "~Subcontext", arg |-> [f |-> "~Subcontext", form |-> "ctx",
                  v |-> <<sub.m_context, sub.level, sub.state>>],
                  lib |-> 0, calls |-> o.calls, ret |-> 0]
  /\ CallsUnchanged

\* Context::set_source_rgb inside or outside a scope.
SetSource(c, v) ==
  /\ gstack' = LibSetSource(gstack, c, v)
  /\ fx' = [op |-> "set_source", arg |-> [f |-> "set_source", form |-> "ctx",
            v |-> <<c, v>>], lib |-> 0, calls |-> <<LibCtxCall("cairo_set_source_rgb", c)>>,
            ret |-> 0]
  /\ UNCHANGED scopes
  /\ CallsUnchanged

\* One round of for (auto it = path.begin(); it != path.end(); ++it): the
\* body sees *it, then the iterator is incremented.
Iterate ==
  /\ walk.pos # Path_end(walk.data)
  /\ \E q \in pre_increment(walk.data, walk.pos) :
       walk' = [walk EXCEPT !.pos = q, !.seen = Append(@, walk.pos)]
  /\ UNCHANGED <<fx, stops, ndebug, gstack, scopes>>
  /\ HandlesUnchanged

\* old = it++ on a copy of the loop's iterator.
PostIncrement ==
  /\ walk.pos # Path_end(walk.data)
  /\ \E o \in post_increment(walk.data, walk.pos) :
       fx' = [op |-> "post_increment",
              arg |-> [f |-> "post_increment", form |-> "it", v |-> <<walk.pos>>],
              lib |-> 0, calls |-> <<>>, ret |-> o]
  /\ UNCHANGED <<walk, stops, ndebug, gstack, scopes>>
  /\ HandlesUnchanged

\* (*it).point(i) on the element the loop's iterator designates.
PointRead(i) ==
  /\ walk.pos # Path_end(walk.data)
  /\ \E o \in point(walk.data, walk.pos, i, ndebug) :
       fx' = [op |-> "point",
              arg |-> [f |-> "point", form |-> "index", v |-> <<walk.pos, i>>],
              lib |-> 0, calls |-> <<>>, ret |-> o]
  /\ UNCHANGED <<walk, stops, ndebug, gstack, scopes>>
  /\ HandlesUnchanged

Handle_ops ==
  \/ \E h \in Handles : DefaultConstruct(h)
  \/ \E h \in Handles, f \in Factories : Factory(h, f)
  \/ \E d, s \in Handles : CopyConstruct(d, s)
  \/ \E d, s \in Handles : CopyAssign(d, s)
  \/ \E d, s \in Handles : MoveConstruct(d, s)
  \/ \E d, s \in Handles : MoveAssign(d, s)
  \/ \E h \in Handles : Destruct(h)

Next ==
  \/ Handle_ops
  \/ \E h \in Handles, a \in Accessors : Accessor(h, a)
  \/ \E h \in Handles, v \in Values : Mutate(h, v)
  \/ \E h \in Handles : LibAcquire(h)
  \/ \E r \in Res : LibRelease(r)

NextAPI ==
  \/ Handle_ops
  \/ \E h \in Handles : ExplicitDestroy(h)
  \/ \E h \in Handles, fresh \in BOOLEAN : Set(h, fresh)

\* What a program does with facade objects: they come from factories and
\* accessors, are copied, moved, assigned and destroyed, and their methods run.
NextFacade ==
  \/ \E h \in Handles, f \in Factories : Factory(h, f)
  \/ \E h \in Handles, a \in Accessors : Accessor(h, a)
  \/ \E d, s \in Handles : CopyConstruct(d, s)
  \/ \E d, s \in Handles : CopyAssign(d, s)
  \/ \E d, s \in Handles : MoveConstruct(d, s)
  \/ \E d, s \in Handles : MoveAssign(d, s)
  \/ \E h \in Handles : Destruct(h)
  \/ \E h \in Handles, v \in Values : Mutate(h, v)
  \/ \E h \in Handles, f \in Methods : Method(h, f)
  \/ \E h \in Handles : LibAcquire(h)
  \/ \E r \in Res : LibRelease(r)

\* The calls a behaviour of the forwarding methods may start with.
Requests ==
  {Pending(f, "status", <<s>>) : f \in StatusOps, s \in LibStatuses}
    \cup UNION {{Pending(op, form, a) : a \in [1..Arity(op) -> Coords]} :
                 op \in PathOps, form \in {"scalar", "struct"}}
    \cup {Pending("color_stop", "index", <<i>>) : i \in Indices}
    \cup {Pending("text_to_glyphs", "text", <<out>>) : out \in LibTextToGlyphs}
    \cup {Pending("clip_rectangle_list", "list", <<l>>) : l \in LibClipLists}
    \cup {Pending(op, "corners", c) : op \in ExtentsOps, c \in [1..4 -> Corners]}

\* The start of the forwarding methods: any build, no handle operation, and
\* one call about to be made.
InitCalls ==
  /\ policy = "ref" /\ ndebug \in BOOLEAN
  /\ HandlesInit
  /\ fx \in Requests
  /\ stops = <<>>
  /\ Idle

NextCalls ==
  \/ \E f \in StatusOps, s \in LibStatuses : StatusOp(f, s)
  \/ \E op \in PathOps, form \in {"scalar", "struct"} :
       \E a \in [1..Arity(op) -> Coords] : PathOp(op, form, a)
  \/ \E offset \in Coords, col \in Colors : AddColorStop(offset, col)
  \/ \E index \in Indices : ColorStop(index)
  \/ \E out \in LibTextToGlyphs : TextToGlyphs(out)
  \/ \E l \in LibClipLists : ClipRectangleList(l)
  \/ \E op \in ExtentsOps, c \in [1..4 -> Corners] : ExtentsOp(op, c)

\* A program with contexts that were saved any number of times before.
InitScopes ==
  /\ policy = "ref" /\ ndebug = FALSE
  /\ HandlesInit
  /\ fx = NoCall /\ stops = <<>> /\ walk = NoWalk
  /\ gstack \in [Ctxs -> {<<0>>, <<0, 0>>}]
  /\ scopes = <<>>

NextScopes ==
  \/ \E c \in Ctxs : EnterScope(c)
  \/ LeaveScope
  \/ \E c \in Ctxs, v \in Coords : SetSource(c, v)

\* A path of any shape, as the library built it, and an iterator at begin().
InitWalk ==
  /\ policy = "ref" /\ ndebug \in BOOLEAN
  /\ HandlesInit
  /\ fx = [NoCall EXCEPT !.ret = [outcome |-> "none"]] /\ stops = <<>>
  /\ gstack = [c \in Ctxs |-> <<0>>] /\ scopes = <<>>
  /\ \E shape \in PathShapes :
       walk = [data |-> PathArray(shape, 1),
               pos |-> Path_begin(PathArray(shape, 1)), seen |-> <<>>]

NextWalk ==
  \/ Iterate
  \/ PostIncrement
  \/ \E i \in (0 - 1)..MaxLen : PointRead(i)

\* The handles as the facade types use them.
Spec == Init /\ [][Next]_vars

\* Every public operation of the handle templates.
SpecAPI == InitAPI /\ [][NextAPI]_vars

\* The facade objects with their methods.
SpecFacade == Init /\ [][NextFacade]_vars

\* The methods that forward to one library function.
SpecCalls == InitCalls /\ [][NextCalls]_vars

\* Nested Subcontext scopes.
SpecScopes == InitScopes /\ [][NextScopes]_vars

\* Iterators over a path.
SpecWalk == InitWalk /\ [][NextWalk]_vars

\* The same, with a loop that keeps running while it can.
SpecWalkFair == SpecWalk /\ WF_vars(Iterate)

\* ------------------------------------------------------------ properties
Holders(r) == {h \in live : obj[h] = r}

DestroyCalls == SelectSeq(last.calls, LAMBDA c : c.fn = "Destroy")
ReferenceCalls == SelectSeq(last.calls, LAMBDA c : c.fn = "Reference")
CopyCalls == SelectSeq(last.calls, LAMBDA c : c.fn = "Copy")

\* The facades never pass a freed resource to the library.
NoUndefinedBehaviour == ~ub

\* C1: under the reference-counted policy the count of every resource is at
\* least the number of live handles holding it, and once a copy has been made
\* and destroyed the original's resource still has a positive count.
C1_CountCoversHolders ==
  policy = "ref" =>
    /\ \A r \in Res : count[r] >= Cardinality(Holders(r))
    /\ (/\ prev.op = "CopyCtor" /\ last.op = "Dtor" /\ last.dst = prev.dst
        /\ prev.src \in live /\ obj[prev.src] \in Res)
         => count[obj[prev.src]] > 0

C1_Witness ==
  /\ policy = "ref" /\ prev.op = "CopyCtor" /\ last.op = "Dtor"
  /\ last.dst = prev.dst /\ prev.src \in live
  /\ obj[prev.src] \in Res /\ last.oldDst = obj[prev.src]

\* C2: after a move construction or a move assignment from a handle into a
\* different one the source holds null, it keeps holding null until it is
\* assigned again, and its destruction makes no library call.
C2_MovedFromIsNull ==
  /\ (last.op \in {"MoveCtor", "MoveAssign"} /\ last.src # last.dst)
       => obj[last.src] = Null
  /\ \A h \in live : moved[h] => obj[h] = Null
  /\ (last.op = "Dtor" /\ last.moved) => last.calls = <<>>

C2_Witness ==
  /\ last.op = "Dtor" /\ last.moved /\ last.calls = <<>>
  /\ \E h \in live : obj[h] \in Res

\* C3: every non-null pointer a handle holds is released exactly once over
\* the handle's explicit destroy() calls and its destruction.
C3_ReleasedOnce ==
  /\ \A h \in live : rel[h] <= 1
  /\ (last.op = "Dtor" /\ last.oldDst # Null) => last.rel = 1

\* C4: no operation calls the release function with a null pointer.
C4_NoReleaseOfNull ==
  \A i \in 1..Len(last.calls) :
    last.calls[i].fn = "Destroy" => last.calls[i].ptr # Null

C4_Witness ==
  /\ last.op = "Dtor" /\ last.oldDst = Null /\ last.calls = <<>>
  /\ prev.op = "Default" /\ prev.dst = last.dst

\* C5: a copy assignment or move assignment of a handle to itself leaves its
\* pointer and every reference count unchanged and makes no library call.
C5_SelfAssignNoOp ==
  (last.op \in {"CopyAssign", "MoveAssign"} /\ last.src = last.dst)
    => /\ obj[last.dst] = last.oldDst
       /\ count = last.before
       /\ last.calls = <<>>

C5_Witness ==
  /\ last.op = "CopyAssign" /\ last.src = last.dst
  /\ last.oldDst \in Res /\ count[last.oldDst] > 0

\* C6: outside the reference-counted policy no two live handles hold the
\* same resource.
C6_ExclusiveOwner ==
  policy # "ref" =>
    \A h1, h2 \in live : (h1 # h2 /\ obj[h1] \in Res) => obj[h1] # obj[h2]

\* C7: under the deep-copy policy a copy of a handle that holds a resource
\* holds a different resource with the same state, and setting an option
\* through one handle leaves the resource of every other handle unchanged.
C7_CopyIsIndependent ==
  policy = "copy" =>
    /\ (/\ last.op \in {"CopyCtor", "CopyAssign"} /\ last.src # last.dst
        /\ last.oldSrc \in Res)
         => /\ obj[last.dst] \in Res
            /\ obj[last.dst] # obj[last.src]
            /\ data[obj[last.dst]] = data[obj[last.src]]
    /\ last.op = "Mutate"
         => \A g \in live \ {last.dst} :
              obj[g] \in Res => data[obj[g]] = last.odata[obj[g]]

C7_Witness ==
  /\ policy = "copy" /\ last.op = "Mutate" /\ prev.op = "CopyCtor"
  /\ prev.dst = last.dst /\ prev.src \in live
  /\ obj[last.dst] \in Res /\ obj[prev.src] \in Res
  /\ data[obj[last.dst]] # data[obj[prev.src]]

\* C8 as stated, read for two different handles: every copy construction and
\* copy assignment from a source holding r raises r's count by exactly one.
C8_CountRisesByOne ==
  (/\ policy = "ref" /\ last.op \in {"CopyCtor", "CopyAssign"}
   /\ last.src # last.dst /\ last.oldSrc \in Res)
    => /\ obj[last.dst] = last.oldSrc
       /\ obj[last.src] = last.oldSrc
       /\ CopyCalls = <<>>
       /\ count[last.oldSrc] = last.before[last.oldSrc] + 1

\* C8: copy construction, and copy assignment into a different handle, from a
\* source holding r make the destination hold r, leave the source's pointer
\* unchanged, call the reference function exactly once, on r, and never clone;
\* r's count rises by one, unless the destination already held r, whose share
\* is then released first so that the count is unchanged.
C8_CopyShares ==
  (/\ policy = "ref" /\ last.op \in {"CopyCtor", "CopyAssign"}
   /\ last.src # last.dst /\ last.oldSrc \in Res)
    => /\ obj[last.dst] = last.oldSrc
       /\ obj[last.src] = last.oldSrc
       /\ CopyCalls = <<>>
       /\ ReferenceCalls = <<Call("Reference", last.oldSrc)>>
       /\ count[last.oldSrc] =
            last.before[last.oldSrc] + 1
              - (IF last.op = "CopyAssign" /\ last.oldDst = last.oldSrc THEN 1 ELSE 0)

C8_Witness ==
  /\ policy = "ref" /\ last.op = "CopyAssign" /\ last.src # last.dst
  /\ last.oldSrc \in Res /\ last.oldDst \in Res /\ last.oldDst # last.oldSrc
  /\ count[last.oldSrc] = last.before[last.oldSrc] + 1

\* C9: an accessor attaches with exactly one reference call; destroying the
\* wrapper it returned restores the count the resource had before the call,
\* and the library's own references are never released by a wrapper.
C9_AccessorRoundTrip ==
  policy = "ref" =>
    /\ \A r \in Res : count[r] >= libRefs[r]
    /\ (last.op = "Accessor" /\ obj[last.dst] \in Res)
         => /\ last.calls = <<Call("Reference", obj[last.dst])>>
            /\ count[obj[last.dst]] = last.before[obj[last.dst]] + 1
    /\ (/\ last.op = "Dtor" /\ prev.op = "Accessor" /\ prev.dst = last.dst
        /\ last.oldDst \in Res)
         => /\ count[last.oldDst] = prev.cnt
            /\ libRefs[last.oldDst] > 0

C9_Witness ==
  /\ policy = "ref" /\ last.op = "Dtor" /\ prev.op = "Accessor"
  /\ prev.dst = last.dst /\ last.oldDst \in Res
  /\ count[last.oldDst] = prev.cnt

\* C10: a factory wraps the new resource without a reference call, the count
\* stays 1, and destroying that wrapper releases the resource once and frees it.
C10_FactoryAdopts ==
  /\ last.op = "Factory"
       => last.calls = <<>> /\ count[obj[last.dst]] = 1
  /\ (last.op = "Dtor" /\ prev.op = "Factory" /\ prev.dst = last.dst)
       => /\ last.calls = <<Call("Destroy", last.oldDst)>>
          /\ count[last.oldDst] = 0

C10_Witness ==
  /\ last.op = "Dtor" /\ prev.op = "Factory" /\ prev.dst = last.dst
  /\ last.oldDst \in Res /\ count[last.oldDst] = 0

\* C11: no facade method passes a null pointer to the library or reads a
\* field through a null handle.
C11_NullNeverUsed ==
  last.op \in {"Method", "Mutate"} =>
    \A i \in 1..Len(last.calls) : last.calls[i].ptr # Null

\* C12 as stated: every status-reporting operation makes exactly one library
\* call and returns the status the library answered.
C12_OneCallPassThrough ==
  fx.op \in StatusOps => Len(fx.calls) = 1 /\ fx.ret = fx.lib

\* C12: every status-reporting operation returns exactly the status the
\* library produced and asks for it exactly once; Path::status reads it from
\* the path structure without a library call, and text_to_glyphs makes two
\* more library calls, to free the two arrays, when the status is success.
C12_StatusPassThrough ==
  fx.op \in StatusOps =>
    LET asked == SelectSeq(fx.calls, LAMBDA c : c = LibFn(fx.op))
        others == SelectSeq(fx.calls, LAMBDA c : c # LibFn(fx.op))
    IN /\ fx.ret = fx.lib
       /\ Len(asked) = (IF fx.op = "Path_status" THEN 0 ELSE 1)
       /\ others = (IF fx.op = "ScaledFont_text_to_glyphs" /\ fx.lib = Success
                    THEN <<"cairo_glyph_free", "cairo_text_cluster_free">>
                    ELSE <<>>)

C12_Witness ==
  /\ fx.op = "Surface_write_to_png" /\ fx.lib > 1
  /\ fx.ret = fx.lib /\ fx.calls = <<"cairo_surface_write_to_png">>

\* C13: set(p) on a handle holding a non-null q # p releases q exactly once,
\* and once every handle is destroyed no resource a handle held is left
\* unreleased.
C13_SetReleasesOld ==
  /\ (last.op = "Set" /\ last.oldDst # Null /\ obj[last.dst] # last.oldDst)
       => DestroyCalls = <<Call("Destroy", last.oldDst)>>
  /\ (last.op = "Dtor" /\ live = {}) => \A r \in Res : count[r] = 0

\* C14: a move construction makes the destination hold the pointer the source
\* held, with no library call and every count unchanged; a move assignment
\* into a different handle does the same after releasing, exactly once, the
\* non-null pointer the destination held.
C14_MoveTransfers ==
  /\ last.op = "MoveCtor"
       => /\ obj[last.dst] = last.oldSrc
          /\ last.calls = <<>>
          /\ count = last.before
  /\ (last.op = "MoveAssign" /\ last.src # last.dst)
       => /\ obj[last.dst] = last.oldSrc
          /\ last.calls = (IF last.oldDst # Null
                           THEN <<Call("Destroy", last.oldDst)>> ELSE <<>>)
          /\ count = (IF last.oldDst \in Res
                      THEN [last.before EXCEPT ![last.oldDst] = @ - 1]
                      ELSE last.before)

C14_Witness ==
  /\ last.op = "MoveAssign" /\ last.src # last.dst
  /\ last.oldDst \in Res /\ last.oldSrc \in Res /\ last.oldDst # last.oldSrc
  /\ obj[last.dst] = last.oldSrc /\ count[last.oldDst] = 0

\* The count of resource r after the first i library calls of the last
\* operation.
CountDuring(i, r) ==
  LET on(fn) == Cardinality({j \in 1..i : last.calls[j] = Call(fn, r)})
  IN last.before[r] + on("Reference") - on("Destroy")

\* C15: a copy assignment between two different reference-counted handles
\* that hold resources releases the destination's old resource once, then
\* references the source's once: the first count falls by one and the second
\* rises by one, and when both hold the same resource its count ends as it
\* began and is positive after each of the two calls.
C15_AssignRebalances ==
  (/\ policy = "ref" /\ last.op = "CopyAssign" /\ last.src # last.dst
   /\ last.oldDst \in Res /\ last.oldSrc \in Res)
    => /\ last.calls = <<Call("Destroy", last.oldDst),
                         Call("Reference", last.oldSrc)>>
       /\ ~ub
       /\ last.oldDst # last.oldSrc
            => /\ count[last.oldDst] = last.before[last.oldDst] - 1
               /\ count[last.oldSrc] = last.before[last.oldSrc] + 1
       /\ last.oldDst = last.oldSrc
            => /\ count = last.before
               /\ \A i \in 0..Len(last.calls) : CountDuring(i, last.oldSrc) > 0

C15_Witness ==
  /\ policy = "ref" /\ last.op = "CopyAssign" /\ last.src # last.dst
  /\ last.oldDst \in Res /\ last.oldSrc = last.oldDst
  /\ last.before[last.oldSrc] = 2 /\ CountDuring(1, last.oldSrc) = 1
  /\ count[last.oldSrc] = 2

\* C16: under the deep-copy policy every live resource, the original or a
\* clone, is held by exactly one handle and carries exactly one share; a copy
\* from a handle holding a resource yields a resource that did not exist
\* before; a copy assignment into a different handle releases the
\* destination's old pointer exactly once; no freed resource is released
\* again, and once every handle is destroyed every resource has been freed.
C16_ClonesReleasedOnce ==
  policy = "copy" =>
    /\ ~ub
    /\ \A r \in Res : /\ count[r] = Cardinality(Holders(r))
                       /\ count[r] <= 1
                       /\ net[r] = count[r]
    /\ (/\ last.op \in {"CopyCtor", "CopyAssign"} /\ last.src # last.dst
        /\ last.oldSrc \in Res)
         => /\ obj[last.dst] \in Res
            /\ LET afterRelease ==
                     IF last.op = "CopyAssign" THEN CountDuring(1, obj[last.dst])
                     ELSE last.before[obj[last.dst]]
               IN afterRelease = 0
    /\ (last.op = "CopyAssign" /\ last.src # last.dst /\ last.oldDst # Null)
         => DestroyCalls = <<Call("Destroy", last.oldDst)>>
    /\ live = {} => \A r \in Res : count[r] = 0

C16_Witness ==
  /\ policy = "copy" /\ last.op = "Dtor" /\ prev.op = "CopyCtor"
  /\ prev.dst = last.dst /\ prev.src \in live
  /\ last.oldDst \in Res /\ count[last.oldDst] = 0
  /\ obj[prev.src] \in Res /\ count[obj[prev.src]] = 1

\* C17: the Vec2F or RectF overload of a path operation makes the one library
\* call the scalar overload makes on the same values: the same function with
\* the same arguments.
C17_StructMatchesScalar ==
  (fx.op \in PathOps /\ fx.arg.form = "struct")
    => fx.calls = ScalarOverload(fx.op, fx.arg.v)

\* C18 as stated: color_stop(index) returns the stop at an index in range,
\* the library having answered success, and aborts on every other index.
C18_OutOfRangeIsFatal ==
  fx.op = "color_stop" =>
    LET index == fx.arg.v[1]
    IN IF 0 <= index /\ index < color_stop_count(stops)
       THEN /\ fx.lib = Success
            /\ fx.ret = [outcome |-> "return", offset |-> stops[index + 1].offset,
                         color |-> stops[index + 1].color]
       ELSE fx.ret.outcome = "abort"

\* C18: color_stop(index) returns the stop at an index in range, the library
\* having answered success; on every other index the library answers with an
\* error that is never returned: the assertion aborts the program, and in a
\* build that defines NDEBUG the call returns offset 0 with the default color.
C18_ColorStopReads ==
  fx.op = "color_stop" =>
    LET index == fx.arg.v[1]
    IN IF 0 <= index /\ index < color_stop_count(stops)
       THEN /\ fx.lib = Success
            /\ fx.ret = [outcome |-> "return", offset |-> stops[index + 1].offset,
                         color |-> stops[index + 1].color]
       ELSE /\ fx.lib # Success
            /\ fx.ret = [outcome |-> IF ndebug THEN "return" ELSE "abort",
                         offset |-> 0, color |-> DefaultColor]

C18_Witness ==
  /\ fx.op = "color_stop" /\ fx.arg.v[1] = 1 /\ Len(stops) = 2
  /\ stops[1] # stops[2]
  /\ fx.ret.outcome = "return" /\ fx.ret.offset = stops[2].offset
  /\ fx.ret.color = stops[2].color

\* C19: the reference function and the clone function are never called with
\* a null pointer, and a copy construction or copy assignment from a handle
\* that holds null leaves the destination holding null without calling either.
C19_NoCallOnNull ==
  /\ \A i \in 1..Len(last.calls) :
       last.calls[i].fn \in {"Reference", "Copy"} => last.calls[i].ptr # Null
  /\ (/\ last.op \in {"CopyCtor", "CopyAssign"} /\ last.src # last.dst
      /\ last.oldSrc = Null)
       => /\ obj[last.dst] = Null
          /\ ReferenceCalls = <<>>
          /\ CopyCalls = <<>>

\* C20: under the reference-counted policy the shares the handles acquired on
\* a resource (adoptions and reference calls) less the release calls they
\* made on it is the number of live handles holding it, and the count is that
\* number above the library's own references; once every handle is destroyed
\* the releases equal the shares acquired and the handles add nothing to any
\* count.
C20_SharesBalance ==
  policy = "ref" =>
    /\ \A r \in Res : /\ net[r] = Cardinality(Holders(r))
                       /\ count[r] = libRefs[r] + net[r]
    /\ live = {} => \A r \in Res : net[r] = 0 /\ count[r] = libRefs[r]

C20_Witness ==
  /\ policy = "ref" /\ last.op = "Dtor" /\ live = {}
  /\ last.oldDst \in Res /\ libRefs[last.oldDst] > 0
  /\ net[last.oldDst] = 0
  /\ count[last.oldDst] = libRefs[last.oldDst]
  /\ last.before[last.oldDst] = count[last.oldDst] + 1

\* C21: a Subcontext makes exactly one save call when it is constructed and
\* exactly one restore call, on the same context, when it is destroyed; the
\* innermost scope ends first, and its restore puts the context back at the
\* depth and the graphics state it had when that scope began; while a scope is
\* open the depth of its context stays above the depth at its save, and each
\* context holds one saved state per open scope.
C21_ScopesBalance ==
  /\ fx.op = "Subcontext"
       => /\ fx.calls = <<LibCtxCall("cairo_save", fx.arg.v[1])>>
          /\ Depth(gstack, fx.arg.v[1]) = fx.arg.v[2] + 1
          /\ scopes # <<>> /\ scopes[Len(scopes)].m_context = fx.arg.v[1]
  /\ fx.op = "~Subcontext"
       => /\ fx.calls = <<LibCtxCall("cairo_restore", fx.arg.v[1])>>
          /\ Depth(gstack, fx.arg.v[1]) = fx.arg.v[2]
          /\ Current(gstack, fx.arg.v[1]) = fx.arg.v[3]
  /\ \A i \in 1..Len(scopes) :
       LET c == scopes[i].m_context
           inner == Cardinality({j \in i..Len(scopes) : scopes[j].m_context = c})
       IN /\ Depth(gstack, c) > scopes[i].level
          /\ Depth(gstack, c) = scopes[i].level + inner

C21_Witness ==
  /\ fx.op = "~Subcontext" /\ scopes = <<>>
  /\ fx.arg.v[2] = 1 /\ Depth(gstack, fx.arg.v[1]) = 1
  /\ Current(gstack, fx.arg.v[1]) = fx.arg.v[3]
  /\ \E c \in Ctxs : c # fx.arg.v[1] /\ Current(gstack, c) = 1

\* C22: old = it++ leaves it at the position ++it would reach and old at the
\* position it had before.
C22_PostIncrementReturnsOld ==
  fx.op = "post_increment" =>
    /\ fx.ret.ret = fx.arg.v[1]
    /\ fx.ret.it \in pre_increment(walk.data, fx.arg.v[1])

\* The offsets at which the elements of a path begin, in order.
Starts(d) ==
  LET heads == {p \in 0..(Len(d) - 1) : d[p + 1].kind = "header"}
  IN [k \in 1..Cardinality(heads) |->
        CHOOSE p \in heads : d[p + 1].elem = k]

\* C23: a loop from begin() with pre-increment sees the elements of the path
\* in order, each once, the iterator always at the start of the next element
\* or at end(), and it reaches end(); on an empty path begin() is end() and
\* nothing is seen.
C23_WalkVisitsAll ==
  /\ [](LET d == walk.data
            all == Starts(d)
            n == Len(walk.seen)
        IN /\ n <= Len(all)
           /\ walk.seen = SubSeq(all, 1, n)
           /\ walk.pos = (IF n < Len(all) THEN all[n + 1] ELSE Path_end(d))
           /\ walk.pos = Path_end(d) => walk.seen = all
           /\ (d = <<>>) => Path_begin(d) = Path_end(d) /\ walk.seen = <<>>)
  /\ <>(walk.pos = Path_end(walk.data))

C23_Witness ==
  /\ walk.pos = Path_end(walk.data) /\ Len(walk.seen) = 3
  /\ walk.seen = Starts(walk.data) /\ walk.seen[3] > 2 /\ walk.pos > 3

\* C24: on Success text_to_glyphs returns the library's glyphs and clusters,
\* each in order and in full, with the library's flags, and frees each of the
\* two arrays once; on any other status it returns that status with empty
\* vectors and flags None and frees nothing.
C24_TextToGlyphs ==
  fx.op = "text_to_glyphs" =>
    LET out == fx.arg.v[1]
        glyph_frees == SelectSeq(fx.calls, LAMBDA c : c.fn = "cairo_glyph_free")
        cluster_frees ==
          SelectSeq(fx.calls, LAMBDA c : c.fn = "cairo_text_cluster_free")
    IN /\ fx.ret.result = out.status
       /\ out.status = Success =>
            /\ Len(fx.ret.glyphs) = out.num_glyphs
            /\ \A i \in 1..out.num_glyphs : fx.ret.glyphs[i] = out.glyphs[i]
            /\ Len(fx.ret.clusters) = out.num_clusters
            /\ \A i \in 1..out.num_clusters :
                 fx.ret.clusters[i] = out.clusters[i]
            /\ fx.ret.flags = out.cluster_flags
            /\ glyph_frees = <<LibCall("cairo_glyph_free", <<out.glyphs>>)>>
            /\ cluster_frees =
                 <<LibCall("cairo_text_cluster_free", <<out.clusters>>)>>
       /\ out.status # Success =>
            /\ fx.ret.glyphs = <<>> /\ fx.ret.clusters = <<>>
            /\ fx.ret.flags = None
            /\ glyph_frees = <<>> /\ cluster_frees = <<>>

C24_Witness ==
  /\ fx.op = "text_to_glyphs" /\ fx.lib = Success
  /\ Len(fx.ret.glyphs) = 2 /\ fx.ret.glyphs[1] # fx.ret.glyphs[2]
  /\ Len(fx.ret.clusters) = 1 /\ fx.ret.flags = Backward
  /\ Len(fx.calls) = 3

\* C25: clip_rectangle_list destroys the library's list exactly once whatever
\* the list's status; it returns no rectangle for a list whose status is not
\* Success, and otherwise the list's num_rectangles rectangles in order, with
\* x, y, w, h taken from x, y, width, height.
C25_ClipRectangleList ==
  fx.op = "clip_rectangle_list" =>
    LET l == fx.arg.v[1]
        destroys ==
          SelectSeq(fx.calls, LAMBDA c : c.fn = "cairo_rectangle_list_destroy")
    IN /\ destroys = <<LibCall("cairo_rectangle_list_destroy", <<l>>)>>
       /\ l.status # Success => fx.ret = <<>>
       /\ l.status = Success =>
            /\ Len(fx.ret) = l.num_rectangles
            /\ \A i \in 1..l.num_rectangles :
                 /\ fx.ret[i].x = l.rectangles[i].x
                 /\ fx.ret[i].y = l.rectangles[i].y
                 /\ fx.ret[i].w = l.rectangles[i].width
                 /\ fx.ret[i].h = l.rectangles[i].height

C25_Witness ==
  /\ fx.op = "clip_rectangle_list" /\ fx.lib = Success
  /\ Len(fx.ret) = 2 /\ fx.ret[1] # fx.ret[2]
  /\ Len(fx.calls) = 2

\* C26: the four extents queries return the first corner as origin and the
\* difference of the corners as size: for corners with x1 <= x2 and y1 <= y2
\* the size is not negative and origin plus size is the second corner.
C26_ExtentsFromCorners ==
  fx.op \in ExtentsOps =>
    LET c == fx.arg.v
        r == fx.ret
    IN /\ r = RectF(c[1], c[2], c[3] - c[1], c[4] - c[2])
       /\ (c[1] <= c[3] /\ c[2] <= c[4]) =>
            /\ r.w >= 0 /\ r.h >= 0
            /\ r.x + r.w = c[3] /\ r.y + r.h = c[4]

C26_Witness ==
  /\ fx.op = "path_extents"
  /\ fx.arg.v[1] < 0 /\ fx.arg.v[2] < 0
  /\ fx.arg.v[1] < fx.arg.v[3] /\ fx.arg.v[2] < fx.arg.v[4]
  /\ fx.ret.w = 2 /\ fx.ret.h = 1

\* C27: with assertions compiled in, every point(i) that returns has read an
\* entry of its own element: 0 <= i < length().
C27_PointStaysInside ==
  (fx.op = "point" /\ ~ndebug /\ fx.ret.outcome = "return")
    => /\ 0 <= fx.arg.v[2]
       /\ \A n \in length(walk.data, fx.arg.v[1]) : fx.arg.v[2] < n
       /\ fx.ret.read >= fx.arg.v[1]

====
